---- MODULE Spec2Model ----
(***************************************************************************)
(* Model of demo/benchmark_optimization.py (class MetaPromptBenchmark):    *)
(* filename sanitisation, parameter validation, the per-configuration      *)
(* subprocess run with its timeout, the per-file benchmark loop and the    *)
(* report's aggregation.                                                   *)
(*                                                                         *)
(* Strings that the code inspects character by character (file stems,      *)
(* domains) are sequences of one-character strings.  A character that is   *)
(* not ASCII is written by its code point ("U+00E9").  Strings the code    *)
(* only compares as a whole (modes, goals) are TLA+ strings.               *)
(* Floating-point values are exact rationals <<numerator, denominator>>    *)
(* or whole seconds; the report's "%.1f" rendering is not modelled.        *)
(***************************************************************************)
EXTENDS Integers, Sequences, FiniteSets, TLC

VARIABLES
    pc,          \* position of the running entry point
    examples,    \* run_full_benchmark: example_files
    fileIdx,     \* run_full_benchmark: index of the file being benchmarked
    cfgIdx,      \* benchmark_file: index of the configuration being run
    pairState,   \* state of every (file, configuration) pair
    current,     \* benchmark_file: the `results` record under construction
    results,     \* run_full_benchmark: `results` / generate_report's argument
    tempDir,     \* whether demo/temp exists
    tempFiles,   \* the files under demo/temp, by sanitized stem
    spawned,     \* the (file, configuration) pairs a subprocess was started for
    deviations,  \* number of environment events that were not the nominal one
    report,      \* generate_report's result
    raw_name,    \* _sanitize_filename: its argument
    safe_name,   \* _sanitize_filename: its result
    resanitized, \* _sanitize_filename applied to its own result
    vArgs,       \* _validate_parameters: its arguments
    vResult      \* _validate_parameters: its result

vars == <<pc, examples, fileIdx, cfgIdx, pairState, current, results, tempDir,
          tempFiles, spawned, deviations, report, raw_name, safe_name,
          resanitized, vArgs, vResult>>

benchVars == <<examples, fileIdx, cfgIdx, pairState, current, results, tempDir,
               tempFiles, spawned, deviations, report>>
sanVars == <<raw_name, safe_name, resanitized>>
valVars == <<vArgs, vResult>>


-----------------------------------------------------------------------------
(* Bounds of the model *)

MaxPrefix == 2
MaxSuffix == 1
MaxRun == 52
MaxDomainRun == 65
MaxDomainAffix == 1
MaxFiles == 2
MaxDeviations == 2
MaxReportFiles == 2

-----------------------------------------------------------------------------
(* Characters and strings *)

AsciiLetters ==
    {"a","b","c","d","e","f","g","h","i","j","k","l","m",
     "n","o","p","q","r","s","t","u","v","w","x","y","z",
     "A","B","C","D","E","F","G","H","I","J","K","L","M",
     "N","O","P","Q","R","S","T","U","V","W","X","Y","Z"}

AsciiDigits == {"0","1","2","3","4","5","6","7","8","9"}

\* Characters outside ASCII that Python's str pattern \w matches (a letter
\* and a digit of another script), by code point.
UnicodeWordChars == {"U+00E9", "U+0663"}

\* \w of a str pattern: Unicode alphanumerics and the underscore.
WordChars == AsciiLetters \cup AsciiDigits \cup {"_"} \cup UnicodeWordChars

\* The complement of the class [^\w\-_.] of _sanitize_filename.
SanitizeKeep == WordChars \cup {"-", "_", "."}

\* The class [a-zA-Z0-9_-] of _validate_parameters.
DomainClass == AsciiLetters \cup AsciiDigits \cup {"_", "-"}

Min(a, b) == IF a < b THEN a ELSE b
Max(a, b) == IF a > b THEN a ELSE b

Rep(c, n) == [i \in 1..n |-> c]

SeqsUpTo(S, n) == UNION {[1..k -> S] : k \in 0..n}

-----------------------------------------------------------------------------
(* _sanitize_filename *)

SanitizeLimit == 50

Placeholder == <<"u","n","n","a","m","e","d">>

\* re.sub(r'[^\w\-_.]', '_', filename)
ReplaceUnsafe(s) == [i \in 1..Len(s) |-> IF s[i] \in SanitizeKeep THEN s[i] ELSE "_"]

\* Variant: only the first leading dot is removed.
LStripFirstDot(s) ==
    IF s # <<>> /\ Head(s) = "." THEN Tail(s) ELSE s

RECURSIVE LStripDots(_)
\* safe_name.lstrip('.')
LStripDots(s) ==
    IF s # <<>> /\ Head(s) = "." THEN LStripDots(Tail(s)) ELSE s

\* s[:n]
Truncate(s, n) == SubSeq(s, 1, Min(Len(s), n))

_sanitize_filename(filename) ==
    LET replaced == ReplaceUnsafe(filename)
        stripped == LStripDots(replaced)
        named    == IF stripped = <<>> THEN Placeholder ELSE stripped
    IN  Truncate(named, SanitizeLimit)

-----------------------------------------------------------------------------
(* _validate_parameters *)

DomainLimit == 64

valid_modes == <<"LOCAL_ONLY", "CACHED_LLM", "FULL_LLM", "ASYNC_LLM">>

valid_goals == <<"REDUCE_TOKENS", "IMPROVE_ACCURACY", "BALANCED", "DOMAIN_SPECIFIC">>

Range(s) == {s[i] : i \in 1..Len(s)}

\* What the file system answers for a path: Path.exists() and Path.is_file().
FileStatus == {"file", "dir", "missing"}
PathExists(status) == status # "missing"
PathIsFile(status) == status = "file"

\* re.match(r'^[a-zA-Z0-9_-]+$', domain): one or more characters of the class
\* up to the end of the string, where `$` also matches just before a newline
\* that ends the string.
DomainPatternMatches(domain) ==
    LET allClass(s) == s # <<>> /\ \A i \in 1..Len(s) : s[i] \in DomainClass
    IN  \/ allClass(domain)
        \/ /\ domain # <<>>
           /\ domain[Len(domain)] = "\n"
           /\ allClass(SubSeq(domain, 1, Len(domain) - 1))

\* raise ValueError(message): the message's fixed text and the value put in it.
ValueError(text, arg) == [raised |-> "ValueError", text |-> text, arg |-> arg]

\* The function returned (None) without raising.
Returned == [raised |-> "nothing"]

\* Variant: the goal is checked before the mode.
_validate_parameters_goal_first(input_file, status, mode, goal, domain) ==
    IF ~PathExists(status) THEN ValueError("Input file does not exist", input_file)
    ELSE IF ~PathIsFile(status) THEN ValueError("Input path is not a file", input_file)
    ELSE IF goal \notin Range(valid_goals) THEN ValueError("Invalid goal", goal)
    ELSE IF mode \notin Range(valid_modes) THEN ValueError("Invalid mode", mode)
    ELSE IF ~DomainPatternMatches(domain) THEN ValueError("Invalid domain", domain)
    ELSE IF Len(domain) > DomainLimit THEN ValueError("Domain name too long", Len(domain))
    ELSE Returned

\* Returns None, or raises the ValueError of the first check that fails.
_validate_parameters(input_file, status, mode, goal, domain) ==
    IF ~PathExists(status) THEN ValueError("Input file does not exist", input_file)
    ELSE IF ~PathIsFile(status) THEN ValueError("Input path is not a file", input_file)
    ELSE IF mode \notin Range(valid_modes) THEN ValueError("Invalid mode", mode)
    ELSE IF goal \notin Range(valid_goals) THEN ValueError("Invalid goal", goal)
    ELSE IF ~DomainPatternMatches(domain) THEN ValueError("Invalid domain", domain)
    ELSE IF Len(domain) > DomainLimit THEN ValueError("Domain name too long", Len(domain))
    ELSE Returned

-----------------------------------------------------------------------------
(* Inputs of the two pure functions *)

SanAlphabet == {"a", ".", "/", "U+00E9"}

\* File names: a short arbitrary prefix, a run of one character long enough
\* to pass the length limit, a short arbitrary suffix.
SanInputs ==
    {pre \o Rep(c, n) \o suf :
        pre \in SeqsUpTo(SanAlphabet, MaxPrefix),
        c \in {"a", "."},
        n \in 0..MaxRun,
        suf \in SeqsUpTo(SanAlphabet, MaxSuffix)}

DomAlphabet == {"a", "-", "/", "\n"}

DomainInputs ==
    {pre \o Rep("a", n) \o suf :
        pre \in SeqsUpTo(DomAlphabet, MaxDomainAffix),
        n \in 0..MaxDomainRun,
        suf \in SeqsUpTo(DomAlphabet, MaxDomainAffix)}

ModeInputs == {"LOCAL_ONLY", "ASYNC_LLM", "TURBO"}

GoalInputs == {"BALANCED", "SPEED"}

ValidateInputs ==
    [input_file : {<<"a">>}, status : FileStatus, mode : ModeInputs,
     goal : GoalInputs, domain : DomainInputs]

-----------------------------------------------------------------------------
(* Exact rationals <<numerator, denominator>>, denominator > 0, for the      *)
(* report's floating-point quotients                                         *)

RECURSIVE GCD(_, _)
GCD(a, b) == IF b = 0 THEN a ELSE GCD(b, a % b)

Abs(n) == IF n < 0 THEN -n ELSE n

RatNorm(r) ==
    LET g == GCD(Abs(r[1]), r[2]) IN <<r[1] \div g, r[2] \div g>>

Rat(n, d) == RatNorm(<<n, d>>)

RatAdd(a, b) == RatNorm(<<a[1] * b[2] + b[1] * a[2], a[2] * b[2]>>)

RatEq(a, b) == a[1] * b[2] = b[1] * a[2]

-----------------------------------------------------------------------------
(* get_file_stats, run_optimization, benchmark_file *)

TimeoutSeconds == 30

software == <<"s","o","f","t","w","a","r","e">>

\* benchmark_file: configurations
configurations ==
    << [mode |-> "LOCAL_ONLY", goal |-> "BALANCED",         domain |-> software],
       [mode |-> "LOCAL_ONLY", goal |-> "REDUCE_TOKENS",    domain |-> software],
       [mode |-> "LOCAL_ONLY", goal |-> "IMPROVE_ACCURACY", domain |-> software],
       [mode |-> "LOCAL_ONLY", goal |-> "DOMAIN_SPECIFIC",  domain |-> software] >>

\* The *.llm files the examples directory may hold, in the directory's listing
\* order: the stem of each and the number of characters of its content.
\* The first two stems sanitize to the same name.
ExampleUniverse ==
    << [stem |-> <<"a", " ", "b">>, chars |-> 10],
       [stem |-> <<"a", "_", "b">>, chars |-> 0],
       [stem |-> <<"c">>,           chars |-> 10] >>

RECURSIVE SubSeqsOf(_)
\* Every subsequence of s, order kept.
SubSeqsOf(s) ==
    IF s = <<>> THEN {<<>>}
    ELSE LET rest == SubSeqsOf(Tail(s))
         IN  rest \cup {<<Head(s)>> \o r : r \in rest}

\* examples_dir.glob("*.llm") for every content of the directory.
ExampleLists == {l \in SubSeqsOf(ExampleUniverse) : Len(l) <= MaxFiles}

\* Number of characters the compiler writes when it writes its output file.
OutSizes == {6}

\* Wall-clock seconds of a subprocess that ends within the timeout: the
\* usual time and a slow run.
ElapsedSeconds == {1, 29}
Nominal(elapsed) == elapsed = 1

\* A file under demo/temp: absent, or its character count and (not program
\* state) the (file, configuration) pair whose subprocess wrote it.
Absent == [exists |-> FALSE]
Written(chars, writer) == [exists |-> TRUE, chars |-> chars, writer |-> writer]

OutputPaths == {_sanitize_filename(ExampleUniverse[i].stem) : i \in 1..Len(ExampleUniverse)}

\* get_file_stats: the statistics of a path; only the character count is
\* modelled (size and lines are derived from the same content).
get_file_stats(exists, chars) ==
    IF ~exists THEN [chars |-> 0] ELSE [chars |-> chars]

\* run_optimization: the output file's key under demo/temp.
output_file(input_file) == _sanitize_filename(input_file.stem)

\* run_optimization, lines 82-90: the outcome of a failed validation.
ValidationOutcome(e, cfg) ==
    [success |-> FALSE, error |-> [text |-> e.text, arg |-> e.arg],
     execution_time |-> 0,
     mode |-> cfg.mode, goal |-> cfg.goal, domain |-> cfg.domain]

\* run_optimization, lines 112-131: the outcome of a subprocess that ended,
\* given the file at the output path after it ended.
CompletedOutcome(returncode, elapsed, outfile, cfg) ==
    LET metrics ==
            [success |-> returncode = 0, execution_time |-> elapsed,
             stdout |-> "", stderr |-> "",
             mode |-> cfg.mode, goal |-> cfg.goal, domain |-> cfg.domain]
    IN  IF returncode = 0 /\ outfile.exists
        THEN [f \in DOMAIN metrics \cup {"output_stats"} |->
                IF f = "output_stats"
                THEN get_file_stats(TRUE, outfile.chars)
                ELSE metrics[f]]
        ELSE metrics

\* Variant: the time measured around the killed subprocess is recorded.
TimeoutOutcomeMeasured(cfg) ==
    [success |-> FALSE, error |-> [text |-> "Timeout"],
     execution_time |-> TimeoutSeconds + 1,
     mode |-> cfg.mode, goal |-> cfg.goal, domain |-> cfg.domain]

\* run_optimization, lines 133-141: the outcome of a subprocess that was
\* killed at the timeout.
TimeoutOutcome(cfg) ==
    [success |-> FALSE, error |-> [text |-> "Timeout"],
     execution_time |-> TimeoutSeconds,
     mode |-> cfg.mode, goal |-> cfg.goal, domain |-> cfg.domain]

-----------------------------------------------------------------------------
(* generate_report *)

\* The literal 4 of the success-rate line.
RateConfigurations == 4

HasStats(opt) == "output_stats" \in DOMAIN opt

RECURSIVE FlatOutcomes(_)
\* The nested loops `for result ... for opt in result["optimizations"]`: every
\* outcome, in order, with its file's original statistics.
FlatOutcomes(benchmark_results) ==
    IF benchmark_results = <<>> THEN <<>>
    ELSE LET r == Head(benchmark_results)
         IN  [i \in 1..Len(r.optimizations) |->
                 [original_stats |-> r.original_stats, opt |-> r.optimizations[i]]]
             \o FlatOutcomes(Tail(benchmark_results))

RECURSIVE SumTimes(_)
SumTimes(s) == IF s = <<>> THEN 0 ELSE Head(s).opt.execution_time + SumTimes(Tail(s))

RECURSIVE SumRat(_)
SumRat(s) == IF s = <<>> THEN <<0, 1>> ELSE RatAdd(Head(s), SumRat(Tail(s)))

\* ((original_size - optimized_size) / original_size) * 100, original_size > 0
Reduction(original_size, optimized_size) ==
    Rat((original_size - optimized_size) * 100, original_size)

\* Lines 181-192: the executive summary's list size_reductions.
SummaryReductions(benchmark_results) ==
    LET counted(x) == /\ x.opt.success
                      /\ HasStats(x.opt)
                      /\ x.original_stats.chars > 0
        kept == SelectSeq(FlatOutcomes(benchmark_results), counted)
    IN  [i \in 1..Len(kept) |->
            Reduction(kept[i].original_stats.chars, kept[i].opt.output_stats.chars)]

\* Lines 216-233: one row of a file's detail table.
DetailRow(original_stats, opt) ==
    LET withStats == opt.success /\ HasStats(opt)
    IN  [mode |-> opt.mode, goal |-> opt.goal, domain |-> opt.domain,
         success |-> opt.success, exec_time |-> opt.execution_time,
         size_reduction |->
             IF withStats
             THEN [percent |->
                     IF original_stats.chars > 0
                     THEN Reduction(original_stats.chars, opt.output_stats.chars)
                     ELSE <<0, 1>>]
             ELSE [text |-> "N/A"],
         status |->
             IF withStats THEN [text |-> "SUCCESS"]
             ELSE IF "error" \in DOMAIN opt THEN opt.error
             ELSE [text |-> "FAILED"]]

\* Variant: the rate is taken per file, not per configuration run.
SuccessRatePerFile(successful_optimizations, total_files) ==
    Rat(successful_optimizations * 100, Max(total_files, 1))

\* Line 201: (successful_optimizations / max(total_files * 4, 1)) * 100
SuccessRate(successful_optimizations, total_files) ==
    Rat(successful_optimizations * 100, Max(total_files * RateConfigurations, 1))

generate_report(benchmark_results) ==
    LET total_files == Len(benchmark_results)
        successes == SelectSeq(FlatOutcomes(benchmark_results), LAMBDA x : x.opt.success)
        successful_optimizations == Len(successes)
        total_execution_time == SumTimes(successes)
        size_reductions == SummaryReductions(benchmark_results)
    IN  [total_files |-> total_files,
         successful_optimizations |-> successful_optimizations,
         avg_execution_time |->
             Rat(total_execution_time, Max(successful_optimizations, 1)),
         avg_size_reduction |->
             LET s == SumRat(size_reductions)
             IN  Rat(s[1], s[2] * Max(Len(size_reductions), 1)),
         success_rate |-> SuccessRate(successful_optimizations, total_files),
         details |->
             [f \in 1..total_files |->
                 [file |-> benchmark_results[f].file,
                  original_stats |-> benchmark_results[f].original_stats,
                  rows |-> [i \in 1..Len(benchmark_results[f].optimizations) |->
                              DetailRow(benchmark_results[f].original_stats,
                                        benchmark_results[f].optimizations[i])]]]]

NoReport == [generated |-> FALSE]

-----------------------------------------------------------------------------
(* run_full_benchmark: discovery, the loop over the files, the report *)

Pairs == (1..Len(ExampleUniverse)) \X (1..Len(configurations))

NoResult == [file |-> <<>>, original_stats |-> [chars |-> 0], optimizations |-> <<>>]

\* An environment event other than the nominal one is allowed while the
\* budget lasts.
CanDeviate == deviations < MaxDeviations
Spend(nominal) == deviations' = IF nominal THEN deviations ELSE deviations + 1

InitBench ==
    /\ pc = "discover"
    /\ examples \in ExampleLists
    /\ fileIdx = 1
    /\ cfgIdx = 1
    /\ pairState = [p \in Pairs |-> "Pending"]
    /\ current = NoResult
    /\ results = <<>>
    /\ tempDir = FALSE
    /\ tempFiles = [p \in OutputPaths |-> Absent]
    /\ spawned = {}
    /\ deviations = 0
    /\ report = NoReport

IdleBench ==
    /\ examples = <<>>
    /\ fileIdx = 1
    /\ cfgIdx = 1
    /\ pairState = [p \in Pairs |-> "Pending"]
    /\ current = NoResult
    /\ results = <<>>
    /\ tempDir = FALSE
    /\ tempFiles = [p \in OutputPaths |-> Absent]
    /\ spawned = {}
    /\ deviations = 0
    /\ report = NoReport

IdleSan == raw_name = <<>> /\ safe_name = <<>> /\ resanitized = <<>>

IdleVal ==
    /\ vArgs = [input_file |-> <<>>, status |-> "file", mode |-> "", goal |-> "",
                domain |-> <<>>]
    /\ vResult = Returned

\* run_full_benchmark, lines 249-251: no example file is a setup error.
DiscoverNone ==
    /\ pc = "discover"
    /\ examples = <<>>
    /\ pc' = "failed"
    /\ UNCHANGED <<benchVars, sanVars, valVars>>

DiscoverFiles ==
    /\ pc = "discover"
    /\ examples # <<>>
    /\ pc' = "next_file"
    /\ UNCHANGED <<benchVars, sanVars, valVars>>

\* benchmark_file, lines 147-161: the input's statistics and the empty result
\* record.  The input is what the file system holds at that moment.
BenchmarkFileBegin ==
    /\ pc = "next_file"
    /\ fileIdx <= Len(examples)
    /\ \E status \in {"file", "missing"} :
          /\ status = "file" \/ CanDeviate
          /\ Spend(status = "file")
          /\ current' = [file |-> examples[fileIdx].stem,
                         original_stats |->
                             get_file_stats(PathExists(status), examples[fileIdx].chars),
                         optimizations |-> <<>>]
    /\ cfgIdx' = 1
    /\ pc' = "loop"
    /\ UNCHANGED <<examples, fileIdx, pairState, results, tempDir, tempFiles,
                   spawned, report, sanVars, valVars>>

\* get_file_stats reads a path that exists but is a directory: read_text
\* raises, nothing catches it before main.
BenchmarkFileRaises ==
    /\ pc = "next_file"
    /\ fileIdx <= Len(examples)
    /\ CanDeviate
    /\ Spend(FALSE)
    /\ pc' = "failed"
    /\ UNCHANGED <<examples, fileIdx, cfgIdx, pairState, current, results, tempDir,
                   tempFiles, spawned, report, sanVars, valVars>>

\* benchmark_file line 165 calls run_optimization, which enters
\* _validate_parameters.
RunOptimizationCall ==
    /\ pc = "loop"
    /\ cfgIdx <= Len(configurations)
    /\ pairState[<<fileIdx, cfgIdx>>] = "Pending"
    /\ pairState' = [pairState EXCEPT ![<<fileIdx, cfgIdx>>] = "Validating"]
    /\ pc' = "validating"
    /\ UNCHANGED <<examples, fileIdx, cfgIdx, current, results, tempDir, tempFiles,
                   spawned, deviations, report, sanVars, valVars>>

\* Variant: a failed outcome is dropped instead of appended.
AppendIfSuccessful(outcome) ==
    /\ current' = IF outcome.success
                  THEN [current EXCEPT !.optimizations = Append(@, outcome)]
                  ELSE current
    /\ cfgIdx' = cfgIdx + 1
    /\ pc' = "loop"

\* benchmark_file line 166: results["optimizations"].append(...), and the
\* loop's step to the next configuration.
AppendOutcome(outcome) ==
    /\ current' = [current EXCEPT !.optimizations = Append(@, outcome)]
    /\ cfgIdx' = cfgIdx + 1
    /\ pc' = "loop"

\* Variant: the scratch directory is made before the parameters are validated.
ValidationFailsAfterMkdir ==
    /\ pc = "validating"
    /\ \E status \in FileStatus :
          LET cfg == configurations[cfgIdx]
              v == _validate_parameters(examples[fileIdx].stem, status,
                                        cfg.mode, cfg.goal, cfg.domain)
          IN  /\ v.raised = "ValueError"
              /\ status = "file" \/ CanDeviate
              /\ Spend(status = "file")
              /\ current' = [current EXCEPT !.optimizations =
                                Append(@, ValidationOutcome(v, cfg))]
              /\ cfgIdx' = cfgIdx + 1
              /\ pc' = "loop"
    /\ tempDir' = TRUE
    /\ pairState' = [pairState EXCEPT ![<<fileIdx, cfgIdx>>] = "ValidationFailed"]
    /\ UNCHANGED <<examples, fileIdx, results, tempFiles, spawned, report,
                   sanVars, valVars>>

\* run_optimization, lines 80-90: validation raised.
ValidationFails ==
    /\ pc = "validating"
    /\ \E status \in FileStatus :
          LET cfg == configurations[cfgIdx]
              v == _validate_parameters(examples[fileIdx].stem, status,
                                        cfg.mode, cfg.goal, cfg.domain)
          IN  /\ v.raised = "ValueError"
              /\ status = "file" \/ CanDeviate
              /\ Spend(status = "file")
              /\ AppendOutcome(ValidationOutcome(v, cfg))
    /\ pairState' = [pairState EXCEPT ![<<fileIdx, cfgIdx>>] = "ValidationFailed"]
    /\ UNCHANGED <<examples, fileIdx, results, tempDir, tempFiles, spawned, report,
                   sanVars, valVars>>

\* run_optimization, lines 80-111: validation passed, the scratch directory
\* is made and the subprocess is started.
ValidationPasses ==
    /\ pc = "validating"
    /\ \E status \in FileStatus :
          LET cfg == configurations[cfgIdx]
              v == _validate_parameters(examples[fileIdx].stem, status,
                                        cfg.mode, cfg.goal, cfg.domain)
          IN  /\ v = Returned
              /\ status = "file" \/ CanDeviate
              /\ Spend(status = "file")
    /\ tempDir' = TRUE
    /\ spawned' = spawned \cup {<<fileIdx, cfgIdx>>}
    /\ pairState' = [pairState EXCEPT ![<<fileIdx, cfgIdx>>] = "Running"]
    /\ pc' = "running"
    /\ UNCHANGED <<examples, fileIdx, cfgIdx, current, results, tempFiles, report,
                   sanVars, valVars>>

\* What the subprocess did to its output file before it ended or was killed:
\* nothing, or it wrote it.
SubprocessWrites(path, wrote) ==
    IF wrote.exists
    THEN [tempFiles EXCEPT ![path] = Written(wrote.chars, <<fileIdx, cfgIdx>>)]
    ELSE tempFiles

WriteChoices == {Absent} \cup {[exists |-> TRUE, chars |-> n] : n \in OutSizes}

\* run_optimization, lines 111-131: subprocess.run returned.
ProcessExits ==
    /\ pc = "running"
    /\ \E returncode \in {0, 1}, wrote \in WriteChoices,
          elapsed \in ElapsedSeconds :
          LET nominal == returncode = 0 /\ wrote.exists /\ Nominal(elapsed)
              path == output_file(examples[fileIdx])
          IN  /\ nominal \/ CanDeviate
              /\ Spend(nominal)
              /\ tempFiles' = SubprocessWrites(path, wrote)
              /\ AppendOutcome(CompletedOutcome(returncode, elapsed, tempFiles'[path],
                                         configurations[cfgIdx]))
    /\ pairState' = [pairState EXCEPT ![<<fileIdx, cfgIdx>>] = "Completed"]
    /\ UNCHANGED <<examples, fileIdx, results, tempDir, spawned, report,
                   sanVars, valVars>>

\* run_optimization, lines 133-141: subprocess.run killed the process at the
\* timeout and raised TimeoutExpired.
ProcessTimesOut ==
    /\ pc = "running"
    /\ CanDeviate
    /\ Spend(FALSE)
    /\ \E wrote \in WriteChoices :
          tempFiles' = SubprocessWrites(output_file(examples[fileIdx]), wrote)
    /\ AppendOutcome(TimeoutOutcome(configurations[cfgIdx]))
    /\ pairState' = [pairState EXCEPT ![<<fileIdx, cfgIdx>>] = "TimedOut"]
    /\ UNCHANGED <<examples, fileIdx, results, tempDir, spawned, report,
                   sanVars, valVars>>

\* benchmark_file line 168 and run_full_benchmark line 259.
BenchmarkFileReturns ==
    /\ pc = "loop"
    /\ cfgIdx > Len(configurations)
    /\ results' = Append(results, current)
    /\ fileIdx' = fileIdx + 1
    /\ pc' = "next_file"
    /\ UNCHANGED <<examples, cfgIdx, pairState, current, tempDir, tempFiles, spawned,
                   deviations, report, sanVars, valVars>>

\* run_full_benchmark, lines 262-266.
GenerateReport ==
    /\ pc = "next_file"
    /\ fileIdx > Len(examples)
    /\ report' = generate_report(results)
    /\ pc' = "done"
    /\ UNCHANGED <<examples, fileIdx, cfgIdx, pairState, current, results, tempDir,
                   tempFiles, spawned, deviations, sanVars, valVars>>

Init == InitBench /\ IdleSan /\ IdleVal

Next ==
    \/ DiscoverNone
    \/ DiscoverFiles
    \/ BenchmarkFileBegin
    \/ BenchmarkFileRaises
    \/ RunOptimizationCall
    \/ ValidationFails
    \/ ValidationPasses
    \/ ProcessExits
    \/ ProcessTimesOut
    \/ BenchmarkFileReturns
    \/ GenerateReport

Spec == Init /\ [][Next]_vars

-----------------------------------------------------------------------------
(* _sanitize_filename applied to bounded inputs, then to its own result *)

InitSanitize ==
    /\ pc = "sanitize"
    /\ raw_name \in SanInputs
    /\ safe_name = <<>>
    /\ resanitized = <<>>
    /\ IdleBench
    /\ IdleVal

Sanitize ==
    /\ pc = "sanitize"
    /\ safe_name' = _sanitize_filename(raw_name)
    /\ pc' = "sanitized"
    /\ UNCHANGED <<raw_name, resanitized, benchVars, valVars>>

SanitizeAgain ==
    /\ pc = "sanitized"
    /\ resanitized' = _sanitize_filename(safe_name)
    /\ pc' = "resanitized"
    /\ UNCHANGED <<raw_name, safe_name, benchVars, valVars>>

NextSanitize == Sanitize \/ SanitizeAgain

SpecSanitize == InitSanitize /\ [][NextSanitize]_vars

-----------------------------------------------------------------------------
(* _validate_parameters applied to bounded inputs *)

InitValidate ==
    /\ pc = "validate"
    /\ vArgs \in ValidateInputs
    /\ vResult = Returned
    /\ IdleBench
    /\ IdleSan

Validate ==
    /\ pc = "validate"
    /\ vResult' = _validate_parameters(vArgs.input_file, vArgs.status, vArgs.mode,
                                       vArgs.goal, vArgs.domain)
    /\ pc' = IF vResult'.raised = "ValueError" THEN "rejected" ELSE "accepted"
    /\ UNCHANGED <<vArgs, benchVars, sanVars>>

NextValidate == Validate

SpecValidate == InitValidate /\ [][NextValidate]_vars

-----------------------------------------------------------------------------
(* generate_report applied to bounded sequences of file results *)

\* The outcomes run_optimization returns for configuration i, by kind.
OutcomeInputs(i) ==
    { TimeoutOutcome(configurations[i]),
      CompletedOutcome(0, 1, Absent, configurations[i]) }
    \cup { CompletedOutcome(0, 1, Written(n, <<1, i>>), configurations[i]) :
             n \in OutSizes }

\* The records benchmark_file returns: one outcome per configuration.
FileResultInputs ==
    { [file |-> <<"c">>, original_stats |-> [chars |-> 10],
       optimizations |-> opts] :
        opts \in { o \in [1..Len(configurations) ->
                            UNION {OutcomeInputs(i) : i \in 1..Len(configurations)}] :
                    \A i \in 1..Len(configurations) : o[i] \in OutcomeInputs(i) } }

InitReport ==
    /\ pc = "render"
    /\ results \in SeqsUpTo(FileResultInputs, MaxReportFiles)
    /\ examples = <<>>
    /\ fileIdx = 1
    /\ cfgIdx = 1
    /\ pairState = [p \in Pairs |-> "Pending"]
    /\ current = NoResult
    /\ tempDir = FALSE
    /\ tempFiles = [p \in OutputPaths |-> Absent]
    /\ spawned = {}
    /\ deviations = 0
    /\ report = NoReport
    /\ IdleSan
    /\ IdleVal

Render ==
    /\ pc = "render"
    /\ report' = generate_report(results)
    /\ pc' = "rendered"
    /\ UNCHANGED <<examples, fileIdx, cfgIdx, pairState, current, results, tempDir,
                   tempFiles, spawned, deviations, sanVars, valVars>>

NextReport == Render

SpecReport == InitReport /\ [][NextReport]_vars

-----------------------------------------------------------------------------
(* Properties of _sanitize_filename (SpecSanitize) *)

AsciiSafe == AsciiLetters \cup AsciiDigits \cup {"_", ".", "-"}

Sanitized == pc \in {"sanitized", "resanitized"}

\* C1: for every input, the sanitized name is non-empty, at most 50
\* characters long, does not start with '.', and holds only characters of
\* [A-Za-z0-9_.-].
C1_SanitizeContract ==
    Sanitized =>
        /\ safe_name # <<>>
        /\ Len(safe_name) <= 50
        /\ Head(safe_name) # "."
        /\ \A i \in 1..Len(safe_name) : safe_name[i] \in AsciiSafe

\* C2: sanitizing a sanitized name changes nothing, for every input.
C2_Idempotent ==
    pc = "resanitized" => resanitized = safe_name

\* C2's case: a name longer than the limit that starts with dots, so that the
\* first pass replaced, stripped and truncated.
C2_Witness ==
    /\ pc = "resanitized"
    /\ Len(raw_name) > SanitizeLimit
    /\ Head(raw_name) = "."
    /\ \E i \in 1..Len(raw_name) : raw_name[i] = "/"
    /\ Len(safe_name) = SanitizeLimit
    /\ resanitized = safe_name

-----------------------------------------------------------------------------
(* Properties of _validate_parameters (SpecValidate) *)

Validated == pc \in {"accepted", "rejected"}

StrictDomain(domain) ==
    /\ domain # <<>>
    /\ Len(domain) <= 64
    /\ \A i \in 1..Len(domain) : domain[i] \in DomainClass

\* C3: for an existing regular file, validation succeeds exactly when the
\* mode and the goal are in their enumerations and the domain is non-empty,
\* at most 64 characters long and made only of [A-Za-z0-9_-] (a trailing
\* newline included among the rejected characters).
C3_RejectsInvalid ==
    (Validated /\ vArgs.status = "file") =>
        ( vResult = Returned
          <=> /\ vArgs.mode \in {"LOCAL_ONLY", "CACHED_LLM", "FULL_LLM", "ASYNC_LLM"}
              /\ vArgs.goal \in {"REDUCE_TOKENS", "IMPROVE_ACCURACY", "BALANCED",
                                 "DOMAIN_SPECIFIC"}
              /\ StrictDomain(vArgs.domain) )

\* The checks of _validate_parameters in the order the claim gives, each with
\* the reasons it reports.
CheckFails(k, a) ==
    CASE k = 1 -> a.status = "missing"
      [] k = 2 -> a.status # "file"
      [] k = 3 -> a.mode \notin Range(valid_modes)
      [] k = 4 -> a.goal \notin Range(valid_goals)
      [] k = 5 -> ~DomainPatternMatches(a.domain) \/ Len(a.domain) > DomainLimit

CheckReasons(k) ==
    CASE k = 1 -> {"Input file does not exist"}
      [] k = 2 -> {"Input path is not a file"}
      [] k = 3 -> {"Invalid mode"}
      [] k = 4 -> {"Invalid goal"}
      [] k = 5 -> {"Invalid domain", "Domain name too long"}

FailingChecks(a) == {k \in 1..5 : CheckFails(k, a)}

FirstFailing(a) == CHOOSE k \in FailingChecks(a) : \A j \in FailingChecks(a) : k <= j

\* C4: validation reports one reason, that of the first failing check in the
\* order file existence, file type, mode, goal, domain (none when no check
\* fails), and the step changes nothing but its own result.
C4_FirstFailureReported ==
    /\ [](Validated =>
            IF FailingChecks(vArgs) = {}
            THEN vResult = Returned
            ELSE /\ vResult.raised = "ValueError"
                 /\ vResult.text \in CheckReasons(FirstFailing(vArgs)))
    /\ [][pc = "validate" => UNCHANGED <<vArgs, benchVars, sanVars>>]_vars

\* C4's case: four checks fail at once and the first one's reason is reported.
C4_Witness ==
    /\ pc = "rejected"
    /\ FailingChecks(vArgs) = {2, 3, 4, 5}
    /\ vResult.text = "Input path is not a file"

-----------------------------------------------------------------------------
(* Properties of run_optimization and benchmark_file (Spec) *)

Terminal == {"ValidationFailed", "Completed", "TimedOut"}

\* Whether the outcome of pair p has been appended to its file's list.
Recorded(p) ==
    \/ p[1] <= Len(results)
    \/ /\ p[1] = fileIdx
       /\ pc \in {"loop", "validating", "running"}
       /\ p[2] <= Len(current.optimizations)

OutcomeOf(p) ==
    IF p[1] <= Len(results)
    THEN results[p[1]].optimizations[p[2]]
    ELSE current.optimizations[p[2]]

CarriesConfiguration(o, cfg) ==
    o.mode = cfg.mode /\ o.goal = cfg.goal /\ o.domain = cfg.domain

\* C5: a subprocess that exceeds the timeout yields an outcome with
\* success = false, error "Timeout", execution_time 30, the configuration's
\* mode, goal and domain, and no output_stats, whatever the subprocess wrote.
C5_TimeoutOutcome ==
    \A p \in Pairs :
        pairState[p] = "TimedOut" =>
            /\ Recorded(p)
            /\ LET o == OutcomeOf(p)
               IN  /\ o.success = FALSE
                   /\ "error" \in DOMAIN o
                   /\ o.error = [text |-> "Timeout"]
                   /\ o.execution_time = 30
                   /\ CarriesConfiguration(o, configurations[p[2]])
                   /\ ~HasStats(o)

\* C5's case: the killed subprocess had already written its output file.
C5_Witness ==
    \E p \in Pairs :
        /\ pairState[p] = "TimedOut"
        /\ p[1] <= Len(examples)
        /\ LET f == tempFiles[output_file(examples[p[1]])]
           IN  f.exists /\ f.writer = p

AllowedTransitions ==
    { <<"Pending", "Validating">>,
      <<"Validating", "ValidationFailed">>,
      <<"Validating", "Running">>,
      <<"Running", "Completed">>,
      <<"Running", "TimedOut">> }

ValidationMessages == {"Input file does not exist", "Input path is not a file"}

C6_State ==
    /\ \A p \in Pairs :
          /\ p \in spawned <=> pairState[p] \in {"Running", "Completed", "TimedOut"}
          /\ pairState[p] \in Terminal <=> Recorded(p)
          /\ pairState[p] = "ValidationFailed" =>
                LET o == OutcomeOf(p)
                IN  /\ o.success = FALSE
                    /\ o.execution_time = 0
                    /\ "error" \in DOMAIN o
                    /\ o.error.text \in ValidationMessages
                    /\ o.error.arg = examples[p[1]].stem
    /\ spawned # {} => tempDir
    /\ pc = "done" =>
          \A p \in Pairs : p[1] <= Len(examples) => pairState[p] \in Terminal

C6_Step ==
    \A p \in Pairs :
        /\ pairState'[p] # pairState[p] =>
              <<pairState[p], pairState'[p]>> \in AllowedTransitions
        /\ (pairState[p] = "Validating" /\ pairState'[p] = "ValidationFailed") =>
              /\ spawned' = spawned
              /\ tempDir' = tempDir
              /\ tempFiles' = tempFiles

IsPrefix(s, u) == Len(s) <= Len(u) /\ SubSeq(u, 1, Len(s)) = s

C7_State ==
    /\ \A f \in 1..Len(results) :
          /\ results[f].file = examples[f].stem
          /\ Len(results[f].optimizations) = Len(configurations)
          /\ \A i \in 1..Len(configurations) :
                CarriesConfiguration(results[f].optimizations[i], configurations[i])
    /\ pc = "done" =>
          /\ Len(report.details) = Len(examples)
          /\ \A f \in 1..Len(examples) :
                /\ report.details[f].file = examples[f].stem
                /\ Len(report.details[f].rows) = Len(configurations)
                /\ \A i \in 1..Len(configurations) :
                      /\ CarriesConfiguration(report.details[f].rows[i], configurations[i])
                      /\ report.details[f].rows[i].success
                            = results[f].optimizations[i].success

C7_Step ==
    /\ IsPrefix(results, results')
    /\ pc # "next_file" => IsPrefix(current.optimizations, current'.optimizations)

\* C7: the outcome list a file's benchmark returns holds one outcome per
\* configuration, in the configurations' order, whatever failed; the lists
\* only grow at their end; the report's detail section has one row per file
\* and configuration, in that order.
C7_OneOutcomePerConfiguration == [](C7_State) /\ [][C7_Step]_vars

\* C7's case: a finished run of two files in which a validation failure and
\* a timeout were followed by successful configurations.
C7_Witness ==
    /\ pc = "done"
    /\ Len(results) = 2
    /\ \E f \in 1..2 :
          LET o == results[f].optimizations
          IN  /\ ~o[1].success /\ o[1].execution_time = 0
              /\ ~o[2].success /\ o[2].execution_time = TimeoutSeconds
              /\ o[3].success
              /\ o[4].success

RECURSIVE SumClaimed(_)
\* Sum of size_reduction(o, n) as the claim defines it: 0 when o = 0.
SumClaimed(s) ==
    IF s = <<>> THEN <<0, 1>>
    ELSE LET x == Head(s)
             r == IF x.original_stats.chars > 0
                  THEN <<(x.original_stats.chars - x.opt.output_stats.chars) * 100,
                         x.original_stats.chars>>
                  ELSE <<0, 1>>
         IN  RatAdd(r, SumClaimed(Tail(s)))

WithStats(rs) == SelectSeq(FlatOutcomes(rs), LAMBDA x : HasStats(x.opt))

\* C9: the summary's average size reduction is the mean of size_reduction
\* over all outcomes that carry output stats, an outcome of a zero-character
\* input counting with the value 0; it is 0 when no outcome carries stats.
C9_MeanOverAllStats ==
    pc = "done" =>
        LET w == WithStats(results)
            s == SumClaimed(w)
        IN  RatEq(report.avg_size_reduction, <<s[1], s[2] * Max(Len(w), 1)>>)

\* C10: output_stats attached to an outcome describe the file that outcome's
\* own subprocess wrote, never one left at the path by an earlier run.
C10_StatsAreOwn ==
    [][ \A p \in Pairs :
          ( /\ pairState[p] = "Running"
            /\ pairState'[p] = "Completed"
            /\ HasStats(current'.optimizations[p[2]]) )
          => tempFiles'[output_file(examples[p[1]])].writer = p ]_vars

-----------------------------------------------------------------------------
(* Properties of generate_report (SpecReport) *)

\* C8: the summary's success rate is the number of successful outcomes over
\* the number of outcomes rendered (files x configurations), as a percentage,
\* and 0 when there is no file.
C8_SuccessRate ==
    pc = "rendered" =>
        LET outs == FlatOutcomes(results)
            succ == Len(SelectSeq(outs, LAMBDA x : x.opt.success))
        IN  IF results = <<>>
            THEN report.success_rate = <<0, 1>>
            ELSE /\ Len(outs) = Len(results) * Len(configurations)
                 /\ RatEq(report.success_rate, <<succ * 100, Len(outs)>>)

\* C8's case: two files, some but not all of their outcomes successful.
C8_Witness ==
    /\ pc = "rendered"
    /\ Len(results) = 2
    /\ report.successful_optimizations = 3
    /\ report.success_rate = <<75, 2>>

====
